---------------------------- MODULE Spec2Model ----------------------------
(***************************************************************************)
(* A model of cli.py: the port probe (is_port_in_use,                      *)
(* find_next_available_port), the development-server launcher              *)
(* (run_uvicorn), the scaffolding routine (create_app_directory) and the   *)
(* argument dispatch (main).                                               *)
(*                                                                         *)
(* The environment of the program is part of the state: the set of TCP     *)
(* ports that have a listener and the file system below the working        *)
(* directory.  Every external call of the code (a socket connect, input(), *)
(* Popen, webbrowser.open, makedirs, copyfile, open/write, print) is one   *)
(* step, recorded in the event log of the running call.                    *)
(***************************************************************************)
EXTENDS Integers, Sequences, FiniteSets, TLC

VARIABLES
    occupied,   \* environment: the ports on which a listener accepts
    changes,    \* how often the environment changed `occupied` so far
    op,         \* the entry point that was called: "find", "run", "create", "main"
    pc,         \* position in the running call
    startPort,  \* find_next_available_port: the argument starting_port
    port,       \* find_next_available_port: the local variable port
    reqPort,    \* run_uvicorn: the argument port
    runPort,    \* run_uvicorn: the local variable port as it stands
    response,   \* run_uvicorn: the normalised answer, NoAnswer before the prompt
    trace,      \* the external calls of the running call, in order
    result,     \* how the running call ended
    fs,         \* environment: the files and directories below the working directory
    fs0,        \* fs as the running call of create_app_directory found it
    appName,    \* create_app_directory: the argument name
    step,       \* create_app_directory: the statement of the try block to run next
    calls,      \* how many calls of create_app_directory were made
    argv,       \* main: the command line after the program name
    made        \* history: per name, the number of the call whose makedirs
                \* created <cwd>/name, 0 when no call did

createVars == <<fs, fs0, appName, step, calls, argv, made>>
portVars == <<occupied, changes, startPort, port, reqPort, runPort, response>>
vars == <<occupied, changes, op, pc, startPort, port, reqPort, runPort,
          response, trace, result, fs, fs0, appName, step, calls, argv, made>>

---------------------------------------------------------------------------
(* Bounds and program constants *)

\* connect_ex accepts ports 0..65535 and raises OverflowError outside
PortMax == 65535

\* the default of run_uvicorn(port=8000) and of --port
DefaultPort == 8000

\* the environment varies the ports DefaultPort..DefaultPort+Span and
\* PortMax-Span..PortMax; every other port is free
Span == 2

\* how often the environment may change a port while a call runs
MaxChanges == 1

Window == (DefaultPort .. DefaultPort + Span) \cup (PortMax - Span .. PortMax)

NoPort == 0 - 1
NoAnswer == <<"?">>
Running == [kind |-> "running"]

---------------------------------------------------------------------------
(* Text: str(port), and strip().lower() of the answer *)

DigitChars == <<"0", "1", "2", "3", "4", "5", "6", "7", "8", "9">>

RECURSIVE NatToStr(_)
NatToStr(n) ==
    IF n < 10 THEN <<DigitChars[n + 1]>>
    ELSE NatToStr(n \div 10) \o <<DigitChars[(n % 10) + 1]>>

\* str(port) for an int
Str(n) == IF n < 0 THEN <<"-">> \o NatToStr(-n) ELSE NatToStr(n)

UpperChars == <<"A", "B", "C", "D", "E", "F", "G", "H", "I", "J", "K", "L", "M",
                "N", "O", "P", "Q", "R", "S", "T", "U", "V", "W", "X", "Y", "Z">>
LowerChars == <<"a", "b", "c", "d", "e", "f", "g", "h", "i", "j", "k", "l", "m",
                "n", "o", "p", "q", "r", "s", "t", "u", "v", "w", "x", "y", "z">>

IsSpace(c) == c \in {" ", "\t", "\n", "\r"}

LowerChar(c) ==
    IF \E i \in 1 .. Len(UpperChars) : UpperChars[i] = c
    THEN LowerChars[CHOOSE i \in 1 .. Len(UpperChars) : UpperChars[i] = c]
    ELSE c

\* str.lower()
Lower(s) == [i \in 1 .. Len(s) |-> LowerChar(s[i])]

\* str.strip(): drop the leading and the trailing whitespace
Strip(s) ==
    LET keep == {i \in 1 .. Len(s) : ~IsSpace(s[i])}
    IN  IF keep = {} THEN <<>>
        ELSE LET lo == CHOOSE i \in keep : \A j \in keep : i <= j
                 hi == CHOOSE i \in keep : \A j \in keep : j <= i
             IN  SubSeq(s, lo, hi)

\* input(...).strip().lower()
NormaliseAnswer(raw) == Lower(Strip(raw))

\* what the user may type at the prompt
Answers ==
    { <<"y">>, <<"Y">>, <<" ", "y", " ">>, <<"\t", "Y", " ">>,
      <<"n">>, <<"N">>, <<>>, <<" ">>,
      <<"y", "e", "s">>, <<"y", " ", "y">>,
      <<"m", "a", "y", "b", "e">>, <<"1", "2", "3", "4">> }

---------------------------------------------------------------------------
(* Events of the log *)

EvProbe(p, r) == [ev |-> "probe", port |-> p, inUse |-> r]
EvProbeError(p) == [ev |-> "probe_error", port |-> p]
EvPrint(m, a) == [ev |-> "print", msg |-> m, arg |-> a]
EvInput(raw) == [ev |-> "input", raw |-> raw]
EvInputError(e) == [ev |-> "input_error", exc |-> e]
\* outcome: "ok", or the name of the exception the call raised
EvPopen(cmd, outcome) == [ev |-> "popen", cmd |-> cmd, outcome |-> outcome]
EvBrowser(url, outcome) == [ev |-> "browser", url |-> url, outcome |-> outcome]

Returned(v) == [kind |-> "return", val |-> v]
Raised(e) == [kind |-> "raise", exc |-> e]

---------------------------------------------------------------------------
(* The file system below the working directory *)

\* the names create_app_directory is called with
Names == {"myapp", "blog"}

\* the layout below <cwd>/name, as paths relative to it
LayoutDirs == {<<"app">>, <<"app", "routes">>, <<"app", "static">>}
LayoutFiles ==
    {<<"settings.py">>, <<"main.py">>, <<"app.py">>,
     <<"app", "routes", "index.py">>, <<"app", "static", "index.html">>,
     <<"app", "static", "logo.png">>}

\* the paths of the model, relative to the working directory, which exists
AllPaths == {<<n>> \o r : n \in Names, r \in {<<>>} \cup LayoutDirs \cup LayoutFiles}

Absent == [kind |-> "absent"]
Dir == [kind |-> "dir"]
File(c) == [kind |-> "file", content |-> c]

EmptyFs == [p \in AllPaths |-> Absent]

\* the content of a file of the templates package
Template(f) == <<"template of " \o f>>

\* no call of create_app_directory: an empty working directory
NoCreate ==
    /\ fs = EmptyFs
    /\ fs0 = EmptyFs
    /\ appName = ""
    /\ step = 0
    /\ calls = 0
    /\ argv = <<>>
    /\ made = [n \in Names |-> 0]

---------------------------------------------------------------------------
(* is_port_in_use *)

\* a probe that accepts any integer as a port
IsPortInUseNoRange(p, occ) == Returned(p \in occ)

\* sock.connect_ex(('localhost', port)) == 0: a listener accepts the
\* connection; a port outside 0..65535 raises OverflowError
IsPortInUse(p, occ) ==
    IF p < 0 \/ p > PortMax THEN Raised("OverflowError")
    ELSE Returned(p \in occ)

\* the environment: another process starts or stops listening on a port
\* while the probing code runs
PortChange ==
    /\ pc \in {"find_loop", "run_check", "run_prompt", "run_launch", "run_browser"}
    /\ changes < MaxChanges
    /\ \E p \in Window :
         occupied' = IF p \in occupied THEN occupied \ {p} ELSE occupied \cup {p}
    /\ changes' = changes + 1
    /\ UNCHANGED <<op, pc, startPort, port, reqPort, runPort, response, trace, result>>
    /\ UNCHANGED createVars

---------------------------------------------------------------------------
(* find_next_available_port *)

\* a command line with the default port written into it
UvicornCmdDefaultPort(p) ==
    <<"uvicorn", "app:app", "--reload", "--port">> \o <<Str(DefaultPort)>>

\* the command line of the launch and the URL of the browser
UvicornCmd(p) == <<"uvicorn", "app:app", "--reload", "--port">> \o <<Str(p)>>
Url(p) == <<"http://localhost:">> \o <<Str(p)>>

\* a loop body that skips a port
NextPortSkipsOne(p) == p + 2

\* the loop body: port += 1
NextPort(p) == p + 1

\* a handler that catches every exception
CaughtByHandlerAny(exc) == TRUE

\* run_uvicorn's handler: except subprocess.CalledProcessError
CaughtByHandler(exc) == exc = "CalledProcessError"

\* how run_uvicorn ends when `exc` is raised inside its try block: the
\* handler prints and the call returns None, or the exception propagates
ExceptResult(exc) == IF CaughtByHandler(exc) THEN Returned("None") ELSE Raised(exc)
ExceptTrace(exc) ==
    IF CaughtByHandler(exc) THEN <<EvPrint("uvicorn_error", NoPort)>> ELSE <<>>

\* an assignment that drops the port found
PortAfterFindKeepsRequested(requested, found) == requested

\* port = find_next_available_port(port + 1): the port found replaces the
\* requested one
PortAfterFind(requested, found) == found

\* the loop test and body: while is_port_in_use(port): port += 1; return port.
\* Called by run_uvicorn, the value returned becomes its port and
\* "Using port" is printed; an exception goes to run_uvicorn's handler.
FindStep ==
    /\ pc = "find_loop"
    /\ LET r == IsPortInUse(port, occupied)
       IN  IF r.kind = "raise"
           THEN /\ trace' = Append(trace, EvProbeError(port))
                               \o (IF op = "find" THEN <<>> ELSE ExceptTrace(r.exc))
                /\ result' = IF op = "find" THEN r ELSE ExceptResult(r.exc)
                /\ pc' = "done"
                /\ UNCHANGED <<port, runPort>>
           ELSE IF r.val
           THEN /\ trace' = Append(trace, EvProbe(port, TRUE))
                /\ port' = NextPort(port)
                /\ UNCHANGED <<pc, result, runPort>>
           ELSE IF op = "find"
           THEN /\ trace' = Append(trace, EvProbe(port, FALSE))
                /\ result' = Returned(port)
                /\ pc' = "done"
                /\ UNCHANGED <<port, runPort>>
           ELSE /\ runPort' = PortAfterFind(runPort, port)
                /\ trace' = trace \o <<EvProbe(port, FALSE), EvPrint("using", runPort')>>
                /\ pc' = "run_launch"
                /\ UNCHANGED <<port, result>>
    /\ UNCHANGED <<occupied, changes, op, startPort, reqPort, response>>
    /\ UNCHANGED createVars

InitFind ==
    /\ occupied \in SUBSET Window
    /\ changes = 0
    /\ op = "find"
    /\ pc = "find_loop"
    /\ startPort \in Window
    /\ port = startPort
    /\ reqPort = NoPort
    /\ runPort = NoPort
    /\ response = NoAnswer
    /\ trace = <<>>
    /\ result = Running
    /\ NoCreate

NextFind == FindStep \/ PortChange

SpecFind == InitFind /\ [][NextFind]_vars

---------------------------------------------------------------------------
(* run_uvicorn *)

\* the exceptions the environment raises: input() at end of input, Popen
\* (CalledProcessError as the handler expects it, OSError when uvicorn
\* cannot be started), webbrowser.open
InputErrors == {"EOFError"}
PopenErrors == {"CalledProcessError", "OSError"}
BrowserErrors == {"RuntimeError"}

\* a test that takes every answer but 'n' for a yes
AcceptsNextPortUnlessNo(resp) == resp # <<"n">>

\* if response == 'y'
AcceptsNextPort(resp) == resp = <<"y">>

\* if is_port_in_use(port): print("Port ... is already in use.")
RunCheck ==
    /\ pc = "run_check"
    /\ LET r == IsPortInUse(runPort, occupied)
       IN  IF r.kind = "raise"
           THEN /\ trace' = Append(trace, EvProbeError(runPort)) \o ExceptTrace(r.exc)
                /\ result' = ExceptResult(r.exc)
                /\ pc' = "done"
           ELSE IF r.val
           THEN /\ trace' = trace \o <<EvProbe(runPort, TRUE), EvPrint("in_use", runPort)>>
                /\ pc' = "run_prompt"
                /\ UNCHANGED result
           ELSE /\ trace' = Append(trace, EvProbe(runPort, FALSE))
                /\ pc' = "run_launch"
                /\ UNCHANGED result
    /\ UNCHANGED <<occupied, changes, op, startPort, port, reqPort, runPort, response>>
    /\ UNCHANGED createVars

\* response = input(...).strip().lower(); 'y' calls
\* find_next_available_port(port + 1), anything else prints and returns
RunPrompt ==
    /\ pc = "run_prompt"
    /\ \/ \E raw \in Answers :
            /\ response' = NormaliseAnswer(raw)
            /\ IF AcceptsNextPort(response')
               THEN /\ trace' = Append(trace, EvInput(raw))
                    /\ startPort' = runPort + 1
                    /\ port' = runPort + 1
                    /\ pc' = "find_loop"
                    /\ UNCHANGED result
               ELSE /\ trace' = trace \o <<EvInput(raw), EvPrint("declined", NoPort)>>
                    /\ result' = Returned("None")
                    /\ pc' = "done"
                    /\ UNCHANGED <<startPort, port>>
       \/ \E e \in InputErrors :
            /\ trace' = Append(trace, EvInputError(e)) \o ExceptTrace(e)
            /\ result' = ExceptResult(e)
            /\ pc' = "done"
            /\ UNCHANGED <<startPort, port, response>>
    /\ UNCHANGED <<occupied, changes, op, reqPort, runPort>>
    /\ UNCHANGED createVars

\* print("Starting Uvicorn ..."); subprocess.Popen([...])
RunLaunch ==
    /\ pc = "run_launch"
    /\ \/ /\ trace' = trace \o <<EvPrint("starting", runPort),
                                  EvPopen(UvicornCmd(runPort), "ok")>>
          /\ pc' = "run_browser"
          /\ UNCHANGED result
       \/ \E e \in PopenErrors :
            /\ trace' = trace \o <<EvPrint("starting", runPort),
                                    EvPopen(UvicornCmd(runPort), e)>>
                               \o ExceptTrace(e)
            /\ result' = ExceptResult(e)
            /\ pc' = "done"
    /\ UNCHANGED <<occupied, changes, op, startPort, port, reqPort, runPort, response>>
    /\ UNCHANGED createVars

\* url = ...; print("Opening ..."); webbrowser.open(url)
RunBrowser ==
    /\ pc = "run_browser"
    /\ \/ /\ trace' = trace \o <<EvPrint("opening", runPort),
                                  EvBrowser(Url(runPort), "ok")>>
          /\ result' = Returned("None")
       \/ \E e \in BrowserErrors :
            /\ trace' = trace \o <<EvPrint("opening", runPort),
                                    EvBrowser(Url(runPort), e)>>
                               \o ExceptTrace(e)
            /\ result' = ExceptResult(e)
    /\ pc' = "done"
    /\ UNCHANGED <<occupied, changes, op, startPort, port, reqPort, runPort, response>>
    /\ UNCHANGED createVars

\* the ports run_uvicorn is called with: the varied ones and, as --port
\* takes any int, one beyond the range
RunPorts == Window \cup {PortMax + 1}

InitRun ==
    /\ occupied \in SUBSET Window
    /\ changes = 0
    /\ op = "run"
    /\ pc = "run_check"
    /\ startPort = NoPort
    /\ port = NoPort
    /\ reqPort \in RunPorts
    /\ runPort = reqPort
    /\ response = NoAnswer
    /\ trace = <<>>
    /\ result = Running
    /\ NoCreate

NextRun == RunCheck \/ RunPrompt \/ FindStep \/ RunLaunch \/ RunBrowser \/ PortChange

SpecRun == InitRun /\ [][NextRun]_vars

---------------------------------------------------------------------------
(* create_app_directory *)

\* how often create_app_directory is called in a behaviour
MaxCalls == 2

Ok(f) == [ok |-> TRUE, fs |-> f]
Fails(e) == [ok |-> FALSE, exc |-> e]

\* a pre-check that looks for the settings.py of the app
PathExistsWithSettings(f, p) == f[p \o <<"settings.py">>].kind # "absent"

\* a pre-check that looks for a directory only
PathExistsAsDir(f, p) == f[p].kind = "dir"

\* os.path.exists(path)
PathExists(f, p) == f[p].kind # "absent"

Parent(p) == SubSeq(p, 1, Len(p) - 1)
Prefixes(p) == {SubSeq(p, 1, k) : k \in 1 .. Len(p)}

\* the parent of p is a directory (the working directory is one)
ParentIsDir(f, p) == Len(p) = 1 \/ f[Parent(p)].kind = "dir"

\* os.makedirs(path, exist_ok=True)
MakeDirs(f, p) ==
    IF f[p].kind = "dir" THEN Ok(f)
    ELSE IF f[p].kind = "file" THEN Fails("FileExistsError")
    ELSE IF \E q \in Prefixes(p) : f[q].kind = "file" THEN Fails("NotADirectoryError")
    ELSE Ok([q \in AllPaths |-> IF q \in Prefixes(p) THEN Dir ELSE f[q]])

\* shutil.copyfile(files(TEMPLATES_MODULE) / src, dst)
CopyFile(f, src, dst) ==
    IF ~ParentIsDir(f, dst) THEN Fails("FileNotFoundError")
    ELSE IF f[dst].kind = "dir" THEN Fails("IsADirectoryError")
    ELSE Ok([f EXCEPT ![dst] = File(Template(src))])

\* the text create_app_directory appends to settings.py
AppSettings(name) == <<"\n# App-specific settings\nAPP_NAME = '" \o name \o "'\n">>

\* with open(path, 'a') as f: f.write(text)
AppendFile(f, dst, text) ==
    IF ~ParentIsDir(f, dst) THEN Fails("FileNotFoundError")
    ELSE IF f[dst].kind = "dir" THEN Fails("IsADirectoryError")
    ELSE Ok([f EXCEPT ![dst] =
                File((IF f[dst].kind = "file" THEN f[dst].content ELSE <<>>) \o text)])

StMakeDirs(rel) == [do |-> "makedirs", rel |-> rel]
StImport == [do |-> "import"]
StCopy(src, rel) == [do |-> "copy", src |-> src, rel |-> rel]
StAppend(rel) == [do |-> "append", rel |-> rel]
StPrint == [do |-> "print"]

\* a try block that appends the app settings before it copies settings.py
CreateStepsAppendFirst ==
    << StMakeDirs(<<>>),
       StImport,
       StAppend(<<"settings.py">>),
       StCopy("settings.py", <<"settings.py">>),
       StCopy("main.py", <<"main.py">>),
       StCopy("app.py", <<"app.py">>),
       StMakeDirs(<<"app">>),
       StMakeDirs(<<"app", "routes">>),
       StMakeDirs(<<"app", "static">>),
       StCopy("index.py", <<"app", "routes", "index.py">>),
       StCopy("index.html", <<"app", "static", "index.html">>),
       StCopy("logo.png", <<"app", "static", "logo.png">>),
       StPrint >>

\* the statements of the try block, in order
CreateSteps ==
    << StMakeDirs(<<>>),
       StImport,
       StCopy("settings.py", <<"settings.py">>),
       StAppend(<<"settings.py">>),
       StCopy("main.py", <<"main.py">>),
       StCopy("app.py", <<"app.py">>),
       StMakeDirs(<<"app">>),
       StMakeDirs(<<"app", "routes">>),
       StMakeDirs(<<"app", "static">>),
       StCopy("index.py", <<"app", "routes", "index.py">>),
       StCopy("index.html", <<"app", "static", "index.html">>),
       StCopy("logo.png", <<"app", "static", "logo.png">>),
       StPrint >>

\* a handler that catches the errors of the file system only
CreateHandlerCatchesOSErrorOnly(exc) == exc # "ModuleNotFoundError"

\* except Exception: every failure of a step is one
CreateHandlerCatches(exc) == TRUE

EvFs(do, path) == [ev |-> "fs", do |-> do, path |-> path]
EvFail(do, exc) == [ev |-> "fail", do |-> do, exc |-> exc]

\* a step raised exc: the handler prints the error and the call returns,
\* or the exception leaves the call
CreateFailure(st, exc) ==
    /\ trace' = Append(trace, EvFail(st.do, exc))
                  \o (IF CreateHandlerCatches(exc)
                      THEN <<EvPrint("create_error", exc)>> ELSE <<>>)
    /\ result' = IF CreateHandlerCatches(exc) THEN Returned("None") ELSE Raised(exc)
    /\ pc' = "done"
    /\ UNCHANGED step

\* a step went through
CreateProgress(st, f) ==
    /\ fs' = f
    /\ trace' = Append(trace, EvFs(st.do, <<appName>> \o st.rel))
    /\ step' = step + 1
    /\ UNCHANGED <<pc, result>>

\* the call: directory_path = os.path.join(os.getcwd(), name)
CallCreate(n) ==
    /\ op = "create"
    /\ pc \in {"idle", "done"}
    /\ calls < MaxCalls
    /\ calls' = calls + 1
    /\ appName' = n
    /\ fs0' = fs
    /\ step' = 1
    /\ trace' = <<>>
    /\ result' = Running
    /\ pc' = "create_check"
    /\ UNCHANGED <<op, fs, argv, made>>
    /\ UNCHANGED portVars

\* if os.path.exists(directory_path): print(...); return
CreateCheck ==
    /\ pc = "create_check"
    /\ IF PathExists(fs, <<appName>>)
       THEN /\ trace' = Append(trace, EvPrint("exists", appName))
            /\ result' = Returned("None")
            /\ pc' = "done"
       ELSE /\ pc' = "create_try"
            /\ UNCHANGED <<trace, result>>
    /\ UNCHANGED <<op, fs, fs0, appName, step, calls, argv, made>>
    /\ UNCHANGED portVars

\* one statement of the try block.  A statement fails where the model of the
\* file system says so, or by the environment (no permission, a full disk, a
\* missing template); a copy that fails may leave its target created, empty.
CreateStep ==
    /\ pc = "create_try"
    /\ LET st == CreateSteps[step]
           dst == <<appName>> \o st.rel
       IN  \/ /\ st.do = "makedirs"
              /\ LET r == MakeDirs(fs, dst)
                 IN  \/ /\ r.ok
                        /\ CreateProgress(st, r.fs)
                     \/ /\ CreateFailure(st, IF r.ok THEN "OSError" ELSE r.exc)
                        /\ UNCHANGED fs
           \/ /\ st.do = "import"
              /\ \/ /\ step' = step + 1
                    /\ UNCHANGED <<fs, trace, pc, result>>
                 \/ /\ CreateFailure(st, "ModuleNotFoundError")
                    /\ UNCHANGED fs
           \/ /\ st.do = "copy"
              /\ LET r == CopyFile(fs, st.src, dst)
                 IN  \/ /\ r.ok
                        /\ CreateProgress(st, r.fs)
                     \/ /\ CreateFailure(st, IF r.ok THEN "OSError" ELSE r.exc)
                        /\ UNCHANGED fs
                     \/ /\ r.ok
                        /\ CreateFailure(st, "OSError")
                        /\ fs' = [fs EXCEPT ![dst] = File(<<>>)]
           \/ /\ st.do = "append"
              /\ LET r == AppendFile(fs, dst, AppSettings(appName))
                 IN  \/ /\ r.ok
                        /\ CreateProgress(st, r.fs)
                     \/ /\ CreateFailure(st, IF r.ok THEN "OSError" ELSE r.exc)
                        /\ UNCHANGED fs
           \/ /\ st.do = "print"
              /\ trace' = Append(trace, EvPrint("created", appName))
              /\ result' = Returned("None")
              /\ pc' = "done"
              /\ UNCHANGED <<fs, step>>
    /\ made' = IF fs[<<appName>>].kind = "absent" /\ fs'[<<appName>>].kind = "dir"
               THEN [made EXCEPT ![appName] = calls]
               ELSE made
    /\ UNCHANGED <<op, fs0, appName, calls, argv>>
    /\ UNCHANGED portVars

\* what the working directory holds at a name before the first call:
\* nothing, a directory, a directory with a settings.py in it, or a file
InitialEntries(n) ==
    { [p \in AllPaths |-> Absent],
      [p \in AllPaths |-> IF p = <<n>> THEN Dir ELSE Absent],
      [p \in AllPaths |-> IF p = <<n>> THEN Dir
                          ELSE IF p = <<n, "settings.py">> THEN File(<<"my settings">>)
                          ELSE Absent],
      [p \in AllPaths |-> IF p = <<n>> THEN File(<<"a file">>) ELSE Absent] }

InitCreate ==
    /\ occupied = {}
    /\ changes = 0
    /\ op = "create"
    /\ pc = "idle"
    /\ startPort = NoPort
    /\ port = NoPort
    /\ reqPort = NoPort
    /\ runPort = NoPort
    /\ response = NoAnswer
    /\ trace = <<>>
    /\ result = Running
    /\ \E e \in [Names -> UNION {InitialEntries(n) : n \in Names}] :
         /\ \A n \in Names : e[n] \in InitialEntries(n)
         /\ fs = [p \in AllPaths |-> e[p[1]][p]]
    /\ fs0 = fs
    /\ appName = ""
    /\ step = 0
    /\ calls = 0
    /\ argv = <<>>
    /\ made = [n \in Names |-> 0]

NextCreate ==
    \/ \E n \in Names : CallCreate(n)
    \/ CreateCheck
    \/ CreateStep

SpecCreate == InitCreate /\ [][NextCreate]_vars

---------------------------------------------------------------------------
(* main *)

Exited(code) == [kind |-> "exit", code |-> code]
EvCall(fn, arg) == [ev |-> "call", fn |-> fn, arg |-> arg]

\* int(text) for the values given to --port
IntTexts == {"8001", "65536"}
IntOf(t) == CASE t = "8001" -> 8001 [] t = "65536" -> 65536

\* an argument that starts with '-' names an option
IsOption(t) == t = "--port"

ParseError == [ok |-> FALSE, code |-> 2]
Parsed(c, hasName, n, p) ==
    [ok |-> TRUE, command |-> c, hasName |-> hasName, name |-> n, port |-> p]

\* parser.parse_args(): the positional command (required), the positional
\* name (nargs='?'), --port (type=int, default=8000).  An error exits with
\* status 2: no command, a third positional, --port without a value or with
\* one that is no int.
RECURSIVE ParseFrom(_, _, _, _)
ParseFrom(av, i, pos, prt) ==
    IF i > Len(av)
    THEN IF Len(pos) = 0 \/ Len(pos) > 2 THEN ParseError
         ELSE Parsed(pos[1], Len(pos) = 2, IF Len(pos) = 2 THEN pos[2] ELSE "", prt)
    ELSE IF IsOption(av[i])
    THEN IF i = Len(av) \/ IsOption(av[i + 1]) THEN ParseError
         ELSE IF av[i + 1] \notin IntTexts THEN ParseError
         ELSE ParseFrom(av, i + 2, pos, IntOf(av[i + 1]))
    ELSE ParseFrom(av, i + 1, Append(pos, av[i]), prt)

ParseArgs(av) == ParseFrom(av, 1, <<>>, DefaultPort)

\* a test that takes every command but "new" for "run"
IsRunCommandUnlessNew(c) == c # "new"

\* elif args.command == "run"
IsRunCommand(c) == c = "run"

\* if args.name: None and '' are false
NameGiven(a) == a.hasName /\ a.name # ""

\* main up to the call it dispatches to; create_app_directory and run_uvicorn
\* then run as the steps above, and main returns when they do
MainDispatch ==
    /\ op = "main"
    /\ pc = "main_parse"
    /\ LET a == ParseArgs(argv)
       IN  IF ~a.ok
           THEN /\ trace' = Append(trace, EvPrint("argparse_error", ""))
                /\ result' = Exited(a.code)
                /\ pc' = "done"
                /\ UNCHANGED <<reqPort, runPort, appName, fs0, step, calls>>
           ELSE IF a.command = "new" /\ NameGiven(a)
           THEN /\ trace' = Append(trace, EvCall("create_app_directory", a.name))
                /\ appName' = a.name
                /\ fs0' = fs
                /\ step' = 1
                /\ calls' = calls + 1
                /\ pc' = "create_check"
                /\ UNCHANGED <<reqPort, runPort, result>>
           ELSE IF a.command = "new"
           THEN /\ trace' = Append(trace, EvPrint("usage_new", ""))
                /\ result' = Returned("None")
                /\ pc' = "done"
                /\ UNCHANGED <<reqPort, runPort, appName, fs0, step, calls>>
           ELSE IF IsRunCommand(a.command)
           THEN /\ trace' = Append(trace, EvCall("run_uvicorn", a.port))
                /\ reqPort' = a.port
                /\ runPort' = a.port
                /\ pc' = "run_check"
                /\ UNCHANGED <<appName, fs0, step, calls, result>>
           ELSE /\ trace' = Append(trace, EvPrint("invalid_command", ""))
                /\ result' = Returned("None")
                /\ pc' = "done"
                /\ UNCHANGED <<reqPort, runPort, appName, fs0, step, calls>>
    /\ UNCHANGED <<occupied, changes, op, startPort, port, response, fs, argv, made>>

\* the command lines of the model: a command, a name and one argument too
\* many, with --port and a value after them or before them (an option
\* between the positionals is left out: how argparse then fills the optional
\* name differs between Python versions)
CommandWords == {"new", "run", "serve", ""}
NameWords == {"myapp", ""}
PortWords == IntTexts \cup {"abc"}
PositionalParts ==
    {<<>>} \cup {<<c>> : c \in CommandWords}
           \cup {<<c, n>> : c \in CommandWords, n \in NameWords}
           \cup {<<c, n, "extra">> : c \in CommandWords, n \in NameWords}
OptionParts == {<<>>, <<"--port">>} \cup {<<"--port", v>> : v \in PortWords}
Argvs ==
    {ps \o os : ps \in PositionalParts, os \in OptionParts}
      \cup {os \o ps : ps \in PositionalParts, os \in OptionParts}

InitMain ==
    /\ occupied \in SUBSET (DefaultPort .. DefaultPort + Span)
    /\ changes = 0
    /\ op = "main"
    /\ pc = "main_parse"
    /\ startPort = NoPort
    /\ port = NoPort
    /\ reqPort = NoPort
    /\ runPort = NoPort
    /\ response = NoAnswer
    /\ trace = <<>>
    /\ result = Running
    /\ fs \in InitialEntries("myapp")
    /\ fs0 = fs
    /\ appName = ""
    /\ step = 0
    /\ calls = 0
    /\ argv \in Argvs
    /\ made = [n \in Names |-> 0]

NextMain ==
    \/ MainDispatch
    \/ CreateCheck
    \/ CreateStep
    \/ RunCheck
    \/ RunPrompt
    \/ FindStep
    \/ RunLaunch
    \/ RunBrowser
    \/ PortChange

SpecMain == InitMain /\ [][NextMain]_vars

---------------------------------------------------------------------------
(* Claims about find_next_available_port *)

FindReturned == op = "find" /\ pc = "done" /\ result.kind = "return"

\* the probes of ports a..b, in order, each reported in use
RECURSIVE ProbesInUse(_, _)
ProbesInUse(a, b) ==
    IF a > b THEN <<>> ELSE <<EvProbe(a, TRUE)>> \o ProbesInUse(a + 1, b)

\* some port of s..PortMax is free
SomeFreeFrom(s, occ) == \E q \in s .. PortMax : q \notin occ

\* C1: find_next_available_port(s) returns the smallest port p >= s that
\* is_port_in_use reports free: its probes are exactly s, s+1, .., p, every
\* one before p reported in use and p reported free; while the occupancy
\* stays as it is, a free port >= s makes the call return, and the port
\* returned is free with every port of s..p-1 in use (p = s when s is free).
C1_FindReturnsSmallestFree ==
    /\ FindReturned =>
          /\ result.val >= startPort
          /\ trace = ProbesInUse(startPort, result.val - 1)
                        \o <<EvProbe(result.val, FALSE)>>
    /\ (op = "find" /\ pc = "done" /\ changes = 0
            /\ SomeFreeFrom(startPort, occupied)) =>
          /\ result.kind = "return"
          /\ result.val >= startPort
          /\ result.val \notin occupied
          /\ \A q \in startPort .. result.val - 1 : q \in occupied
          /\ startPort \notin occupied => result.val = startPort

\* the scan passed two occupied ports before it returned
C1_Witness ==
    /\ FindReturned
    /\ changes = 0
    /\ result.val >= startPort + 2

\* C2 as claimed: for every starting port and occupancy the call ends by
\* returning a port.
C2_FindAlwaysReturnsPort ==
    (op = "find" /\ pc = "done") => result.kind = "return"

\* C2 as amended: the scan is bounded by the port range.  It makes at most
\* PortMax - s + 2 probes, is never stuck before it ends, and ends either by
\* returning a port of s..PortMax or, when every port of s..PortMax was
\* reported in use, by raising the OverflowError of the probe of PortMax + 1.
C2_FindBoundedByPortRange ==
    op = "find" =>
      /\ Len(trace) <= PortMax - startPort + 2
      /\ pc # "done" => ENABLED FindStep
      /\ pc = "done" =>
            \/ /\ result.kind = "return"
               /\ result.val \in startPort .. PortMax
            \/ /\ result = Raised("OverflowError")
               /\ trace = ProbesInUse(startPort, PortMax)
                             \o <<EvProbeError(PortMax + 1)>>

\* every port from the starting port up was in use: the call raised
C2_Witness ==
    /\ op = "find"
    /\ pc = "done"
    /\ result = Raised("OverflowError")
    /\ Len(trace) >= 3
    /\ changes = 0

---------------------------------------------------------------------------
(* Claims about run_uvicorn *)

\* the positions of the log that hold an event of the kind
Events(kind) == {i \in 1 .. Len(trace) : trace[i].ev = kind}

InRun == op = "run"

\* the first probe, of the requested port, reported it in use / free
RequestedInUse == InRun /\ Len(trace) >= 1 /\ trace[1] = EvProbe(reqPort, TRUE)
RequestedFree == InRun /\ Len(trace) >= 1 /\ trace[1] = EvProbe(reqPort, FALSE)

\* the typed answer is a single y or Y between whitespace
IsYes(raw) ==
    \E i \in 1 .. Len(raw) :
        /\ raw[i] \in {"y", "Y"}
        /\ \A j \in (1 .. Len(raw)) \ {i} : raw[j] \in {" ", "\t", "\n", "\r"}

\* reading a decimal text
DigitValue(c) == CHOOSE d \in 0 .. 9 : DigitChars[d + 1] = c

IsDigit(c) == \E d \in 0 .. 9 : DigitChars[d + 1] = c

RECURSIVE DigitsToNat(_)
DigitsToNat(s) ==
    IF Len(s) = 0 THEN 0
    ELSE 10 * DigitsToNat(SubSeq(s, 1, Len(s) - 1)) + DigitValue(s[Len(s)])

\* the port a decimal text carries, NoPort when it is no decimal text
PortOfText(t) ==
    IF Len(t) > 0 /\ \A i \in 1 .. Len(t) : IsDigit(t[i])
    THEN DigitsToNat(t) ELSE NoPort

\* the command is the fixed command line, carrying port p
IsCmdFor(cmd, p) ==
    /\ Len(cmd) = 5
    /\ SubSeq(cmd, 1, 4) = <<"uvicorn", "app:app", "--reload", "--port">>
    /\ PortOfText(cmd[5]) = p

\* the port the fifth word of a command line carries
CmdPort(cmd) == IF Len(cmd) = 5 THEN PortOfText(cmd[5]) ELSE NoPort

\* the URL is http://localhost:<p>
IsUrlFor(url, p) ==
    /\ Len(url) = 2
    /\ url[1] = "http://localhost:"
    /\ PortOfText(url[2]) = p

\* C3: the requested port is in use and the answer, trimmed and lower-cased,
\* is not 'y': no launch, no browser, and run_uvicorn has returned normally.
C3_DeclineNeverLaunches ==
    (RequestedInUse /\ \E i \in Events("input") : ~IsYes(trace[i].raw)) =>
        /\ Events("popen") = {}
        /\ Events("browser") = {}
        /\ pc = "done"
        /\ result = Returned("None")

\* the user answered "yes", which is not 'y', and the call is over
C3_Witness ==
    /\ RequestedInUse
    /\ \E i \in Events("input") : trace[i].raw = <<"y", "e", "s">>
    /\ pc = "done"

\* C4 as claimed: the requested port is reported free: once the call is
\* over there was no prompt, exactly one launch, with the fixed command
\* line and the requested port, and after it exactly one browser opening at
\* http://localhost:<the requested port>.
C4_FreePortLaunchesAndOpensOnce ==
    (RequestedFree /\ pc = "done") =>
        /\ Events("input") = {}
        /\ Events("input_error") = {}
        /\ Cardinality(Events("popen")) = 1
        /\ \A i \in Events("popen") : IsCmdFor(trace[i].cmd, reqPort)
        /\ Cardinality(Events("browser")) = 1
        /\ \A j \in Events("browser") :
              /\ IsUrlFor(trace[j].url, reqPort)
              /\ \E i \in Events("popen") : i < j

\* C4 as amended: the requested port is reported free: there is no prompt;
\* the launch is called exactly once, with the fixed command line and the
\* requested port; the browser is opened only after a launch that did not
\* raise, at http://localhost:<the requested port>, and exactly once when
\* the launch did not raise; when the launch raises it is not opened.
C4_FreePortLaunchThenBrowser ==
    RequestedFree =>
        /\ Events("input") = {}
        /\ Events("input_error") = {}
        /\ Cardinality(Events("popen")) <= 1
        /\ \A i \in Events("popen") : IsCmdFor(trace[i].cmd, reqPort)
        /\ Cardinality(Events("browser")) <= 1
        /\ \A j \in Events("browser") :
              /\ IsUrlFor(trace[j].url, reqPort)
              /\ \E i \in Events("popen") : i < j /\ trace[i].outcome = "ok"
        /\ pc = "done" =>
              /\ Cardinality(Events("popen")) = 1
              /\ \A i \in Events("popen") :
                    Cardinality(Events("browser")) =
                        IF trace[i].outcome = "ok" THEN 1 ELSE 0

\* the port was free, the server was launched and the browser opened
C4_Witness ==
    /\ RequestedFree
    /\ pc = "done"
    /\ \E i \in Events("popen") : trace[i].outcome = "ok"
    /\ \E j \in Events("browser") : trace[j].outcome = "ok"

\* the user accepted the next available port
AcceptedNext == RequestedInUse /\ \E i \in Events("input") : IsYes(trace[i].raw)

\* find_next_available_port(reqPort + 1) returned p: after the answer the
\* log holds the probes reqPort+1 .. p, all in use but the last
FindReturnedInRun(p) ==
    \E i \in Events("input") :
        /\ Len(trace) >= i + (p - reqPort)
        /\ SubSeq(trace, i + 1, i + (p - reqPort)) =
              ProbesInUse(reqPort + 1, p - 1) \o <<EvProbe(p, FALSE)>>

\* before position i, the last probe of port p reported it free
LastProbeFree(p, i) ==
    \E k \in 1 .. i - 1 :
        /\ trace[k] = EvProbe(p, FALSE)
        /\ \A m \in k + 1 .. i - 1 : trace[m].ev = "probe" => trace[m].port # p

\* C5: the requested port is in use and the user answers 'y': a launch is on
\* the port p returned by find_next_available_port(port + 1), p is greater
\* than the requested port and its last probe reported it free; the
\* requested port is never passed to the launch; the browser URL carries the
\* port of the launch; once find has returned and the call is over, the
\* launch was called once.
C5_AcceptedLaunchesOnNextFreePort ==
    AcceptedNext =>
        /\ \A i \in Events("popen") :
              LET p == CmdPort(trace[i].cmd)
              IN  /\ ~IsCmdFor(trace[i].cmd, reqPort)
                  /\ IsCmdFor(trace[i].cmd, p)
                  /\ p > reqPort
                  /\ FindReturnedInRun(p)
                  /\ LastProbeFree(p, i)
        /\ \A j \in Events("browser") :
              \E i \in Events("popen") :
                  /\ i < j
                  /\ CmdPort(trace[i].cmd) > reqPort
                  /\ IsUrlFor(trace[j].url, CmdPort(trace[i].cmd))
        /\ (pc = "done" /\ \E k \in Events("print") : trace[k].msg = "using") =>
              Cardinality(Events("popen")) = 1

\* the user accepted, the scan passed an occupied port, the server runs and
\* the browser is open
C5_Witness ==
    /\ AcceptedNext
    /\ pc = "done"
    /\ \E i \in Events("popen") :
          /\ CmdPort(trace[i].cmd) >= reqPort + 2
          /\ trace[i].outcome = "ok"
    /\ \E j \in Events("browser") : trace[j].outcome = "ok"

---------------------------------------------------------------------------
(* Claims about create_app_directory *)

InCreate == op = "create" /\ pc # "idle"

\* <cwd>/name did not exist / existed when the call began
FoundAbsent == InCreate /\ fs0[<<appName>>].kind = "absent"
FoundExisting == InCreate /\ fs0[<<appName>>].kind \in {"dir", "file"}

\* C6: a file or directory exists at <cwd>/name: the file system stays as
\* the call found it, no statement of the try block runs, and the call ends
\* having printed 'app name already exists at this directory' and nothing
\* else.
C6_ExistingPathLeftUnchanged ==
    FoundExisting =>
        /\ fs = fs0
        /\ pc \in {"create_check", "done"}
        /\ Events("fs") = {}
        /\ pc = "done" =>
              /\ trace = <<EvPrint("exists", appName)>>
              /\ result = Returned("None")

\* the name was a directory holding a settings.py, and the call is over
C6_Witness ==
    /\ FoundExisting
    /\ pc = "done"
    /\ fs0[<<appName, "settings.py">>].kind = "file"
    /\ fs[<<appName, "settings.py">>] = File(<<"my settings">>)

\* settings.py of a new app: the template, then the appended APP_NAME line
ExpectedSettings(n) ==
    CASE n = "myapp" ->
           <<"template of settings.py",
             "\n# App-specific settings\nAPP_NAME = 'myapp'\n">>
      [] n = "blog" ->
           <<"template of settings.py",
             "\n# App-specific settings\nAPP_NAME = 'blog'\n">>

\* the complete layout of app n
LayoutComplete(f, n) ==
    /\ f[<<n>>] = Dir
    /\ f[<<n, "app">>] = Dir
    /\ f[<<n, "app", "routes">>] = Dir
    /\ f[<<n, "app", "static">>] = Dir
    /\ f[<<n, "settings.py">>] = File(ExpectedSettings(n))
    /\ f[<<n, "main.py">>] = File(<<"template of main.py">>)
    /\ f[<<n, "app.py">>] = File(<<"template of app.py">>)
    /\ f[<<n, "app", "routes", "index.py">>] = File(<<"template of index.py">>)
    /\ f[<<n, "app", "static", "index.html">>] = File(<<"template of index.html">>)
    /\ f[<<n, "app", "static", "logo.png">>] = File(<<"template of logo.png">>)

CreatedPrinted == \E k \in Events("print") : trace[k].msg = "created"

\* C7: <cwd>/name does not exist and no step fails: the call ends with the
\* complete layout under <cwd>/name, settings.py being the template followed
\* by the APP_NAME line; the append comes after the copy of settings.py and
\* no copy of it follows; the success message is printed only when the
\* whole layout exists, as the last thing the call does.
C7_SuccessBuildsCompleteLayout ==
    FoundAbsent =>
        /\ (pc = "done" /\ Events("fail") = {}) =>
              /\ LayoutComplete(fs, appName)
              /\ CreatedPrinted
              /\ result = Returned("None")
        /\ \A i \in Events("fs") :
              trace[i].do = "append" =>
                 /\ trace[i].path = <<appName, "settings.py">>
                 /\ \E k \in 1 .. i - 1 :
                       trace[k] = EvFs("copy", <<appName, "settings.py">>)
                 /\ \A k \in i + 1 .. Len(trace) :
                       trace[k] # EvFs("copy", <<appName, "settings.py">>)
        /\ CreatedPrinted =>
              /\ LayoutComplete(fs, appName)
              /\ trace[Len(trace)] = EvPrint("created", appName)
              /\ pc = "done"

\* a new app was created in full
C7_Witness ==
    /\ FoundAbsent
    /\ pc = "done"
    /\ CreatedPrinted
    /\ fs[<<appName, "settings.py">>] = File(ExpectedSettings(appName))

\* C8: no failure leaves create_app_directory: when a step after the
\* pre-check fails, no later step runs, 'An error occurred while creating the
\* directory: <error>' is the last thing printed, the success message is
\* not printed, and the call returns normally.
C8_FailureNeverEscapes ==
    InCreate =>
        /\ result.kind # "raise"
        /\ \A i \in Events("fail") :
              /\ pc = "done"
              /\ result = Returned("None")
              /\ Len(trace) = i + 1
              /\ trace[i + 1] = EvPrint("create_error", trace[i].exc)
              /\ ~CreatedPrinted
              /\ step <= 12
              /\ Cardinality(Events("fs")) = (IF step >= 3 THEN step - 2 ELSE step - 1)
              /\ \A k \in Events("fs") : k < i

\* the templates module could not be imported, and the call returned
C8_Witness ==
    /\ InCreate
    /\ pc = "done"
    /\ \E i \in Events("fail") : trace[i].exc = "ModuleNotFoundError"
    /\ result = Returned("None")

---------------------------------------------------------------------------
(* Claims about main *)

\* the command line read word by word: the words that are neither --port
\* nor its value, in order
IsPositionalAt(av, i) == av[i] # "--port" /\ (i = 1 \/ av[i - 1] # "--port")

RECURSIVE PositionalsOf(_, _)
PositionalsOf(av, i) ==
    IF i > Len(av) THEN <<>>
    ELSE (IF IsPositionalAt(av, i) THEN <<av[i]>> ELSE <<>>) \o PositionalsOf(av, i + 1)

HasPortOption(av) == \E i \in 1 .. Len(av) : av[i] = "--port"
PortValueMissing(av) == Len(av) >= 1 /\ av[Len(av)] = "--port"
PortValueOf(av) == av[(CHOOSE i \in 1 .. Len(av) : av[i] = "--port") + 1]

\* the port the command line asks for
PortAskedFor(av) ==
    IF ~HasPortOption(av) THEN 8000
    ELSE CASE PortValueOf(av) = "8001" -> 8001
           [] PortValueOf(av) = "65536" -> 65536

\* a missing command, or a --port value that is no integer
MissingCommandOrBadPort(av) ==
    \/ Len(PositionalsOf(av, 1)) = 0
    \/ HasPortOption(av) /\ ~PortValueMissing(av)
         /\ PortValueOf(av) \notin {"8001", "65536"}

\* what else the parser rejects: a third positional, --port without a value
OtherwiseRejected(av) ==
    \/ Len(PositionalsOf(av, 1)) > 2
    \/ PortValueMissing(av)

NoCallMade == Events("call") = {}
OneCallMade(fn, arg) ==
    /\ Cardinality(Events("call")) = 1
    /\ \A i \in Events("call") : trace[i] = EvCall(fn, arg)
OnlyPrinted(m) == pc = "done" /\ trace = <<EvPrint(m, "")>> /\ result = Returned("None")

Dispatched == op = "main" /\ pc # "main_parse"

\* C9 as claimed: 'new' with a name calls create_app_directory once with
\* that name and never run_uvicorn; 'run' calls run_uvicorn once with the
\* --port value or 8000 and never create_app_directory; 'new' without a name
\* and any other command print and call neither; a missing command or a
\* non-integer --port exits with status 2 and calls neither.  (Nothing is
\* asked here of the command lines the parser rejects for another reason.)
C9_MainDispatchesByCommand ==
    Dispatched =>
        LET ps == PositionalsOf(argv, 1)
        IN  IF MissingCommandOrBadPort(argv)
            THEN pc = "done" /\ result = Exited(2) /\ NoCallMade
            ELSE IF OtherwiseRejected(argv) THEN TRUE
            ELSE IF ps[1] = "new" /\ Len(ps) = 2
            THEN OneCallMade("create_app_directory", ps[2])
            ELSE IF ps[1] = "new" THEN OnlyPrinted("usage_new") /\ NoCallMade
            ELSE IF ps[1] = "run"
            THEN OneCallMade("run_uvicorn", PortAskedFor(argv))
            ELSE OnlyPrinted("invalid_command") /\ NoCallMade

\* C9 as amended: a command line the parser rejects (a missing command, a
\* non-integer or missing --port value, a third positional) exits with
\* status 2 and calls neither; otherwise 'new' with a non-empty name calls
\* create_app_directory once with that name and never run_uvicorn; 'run'
\* calls run_uvicorn once with the --port value or 8000 and never
\* create_app_directory; 'new' with no name or an empty name, and any other
\* command, print and call neither.
C9_MainDispatchesByCommandAndName ==
    Dispatched =>
        LET ps == PositionalsOf(argv, 1)
        IN  IF MissingCommandOrBadPort(argv) \/ OtherwiseRejected(argv)
            THEN pc = "done" /\ result = Exited(2) /\ NoCallMade
            ELSE IF ps[1] = "new" /\ Len(ps) = 2 /\ ps[2] # ""
            THEN /\ OneCallMade("create_app_directory", ps[2])
                 /\ appName = ps[2]
            ELSE IF ps[1] = "new" THEN OnlyPrinted("usage_new") /\ NoCallMade
            ELSE IF ps[1] = "run"
            THEN /\ OneCallMade("run_uvicorn", PortAskedFor(argv))
                 /\ reqPort = PortAskedFor(argv)
            ELSE OnlyPrinted("invalid_command") /\ NoCallMade

\* 'run --port 8001' ran run_uvicorn(8001) to its end, server launched
C9_Witness ==
    /\ op = "main"
    /\ argv = <<"run", "--port", "8001">>
    /\ pc = "done"
    /\ trace[1] = EvCall("run_uvicorn", 8001)
    /\ \E i \in Events("popen") : IsCmdFor(trace[i].cmd, 8001)

---------------------------------------------------------------------------
(* Claims about repeated calls of create_app_directory *)

\* the running call comes after the call that created <cwd>/name
LaterCall == InCreate /\ made[appName] # 0 /\ made[appName] < calls

\* C11: no rollback, and idempotence once the top-level directory exists:
\* a directory <cwd>/name created by a call stays a directory, whether that
\* call completed or failed part way; every later call with the same name
\* finds it, runs no statement of the try block, leaves the file system as
\* it found it and ends having printed only 'app name already exists at
\* this directory'; so a partial layout stays partial.
C11_CreatedNameIsNeverRedone ==
    /\ \A n \in Names : made[n] # 0 => fs[<<n>>] = Dir
    /\ LaterCall =>
          /\ fs0[<<appName>>] = Dir
          /\ fs = fs0
          /\ pc \in {"create_check", "done"}
          /\ Events("fs") = {}
          /\ Events("fail") = {}
          /\ pc = "done" =>
                /\ trace = <<EvPrint("exists", appName)>>
                /\ result = Returned("None")

\* a call created the directory and failed before the layout was complete;
\* a later call with the same name is over and the layout is still partial
C11_Witness ==
    /\ LaterCall
    /\ pc = "done"
    /\ fs[<<appName, "settings.py">>].kind = "file"
    /\ fs[<<appName, "app">>].kind = "absent"
    /\ ~LayoutComplete(fs, appName)

=============================================================================
